---- MODULE Spec2Model ----
(***************************************************************************)
(* Tenant lifecycle of kite: TenantService (createTenant, deleteTenant,    *)
(* listTenants) on top of the Prisma tenant table and KubernetesService.   *)
(* Every `await` of the service is one atomic step; requests of different  *)
(* callers interleave at their awaits, as they do on the Node event loop.  *)
(* Spec runs the lifecycle with TLS on, SpecTLS with either TLS setting,   *)
(* and SpecStatus runs KubernetesService.getComponentStatus on every       *)
(* outcome of its two reads of the cluster.                                *)
(***************************************************************************)
EXTENDS Integers, Sequences, FiniteSets, TLC

\* ---------------------------------------------------------------- bounds
\* The requests (createTenant and deleteTenant calls together) of one run.
MaxRequests == 2

\* The largest replica count a workload status reports.
MaxReplicas == 2

TenantIds == 1..MaxRequests
DeleteOps == 1..MaxRequests
Users == {"u1", "u2"}

\* ------------------------------------------------------------- TenantStatus
PROVISIONING == "provisioning"
READY == "ready"
ERROR == "error"
DELETING == "deleting"
TenantStatus == {PROVISIONING, READY, ERROR, DELETING}

\* Marks a removal in the write log of a record.
REMOVED == "removed"

\* ------------------------------------------------------------ configuration
clusterDomain == "cluster.example"

NullUrl == <<>>

\* -------------------------------------------------------------- credentials
postgresUser == "tenant"
postgresDatabase == "tenantdb"

\* A credential column that was never written.
NullSecret == << >>

\* crypto.randomBytes(size).toString("hex"): 2 * size hex digits. The value
\* of the k-th call of the process is one that no other call gives.
randomBytesHex(size, k) == <<"hex", 2 * size, k>>

\* The columns mapSecrets reads, in its order.
SecretKeys == <<"postgresPassword", "minioAccessKey", "minioSecretKey">>

\* ----------------------------------------------------- createResources order
statefulSets ==
  << [kind |-> "StatefulSet", name |-> "postgres"],
     [kind |-> "StatefulSet", name |-> "minio"] >>

deployments ==
  << [kind |-> "Deployment", name |-> "backend"],
     [kind |-> "Deployment", name |-> "frontend"] >>

services ==
  << [kind |-> "Service", name |-> "postgres"],
     [kind |-> "Service", name |-> "minio"],
     [kind |-> "Service", name |-> "backend"],
     [kind |-> "Service", name |-> "frontend"] >>

ingresses ==
  << [kind |-> "Ingress", name |-> "ingress"],
     [kind |-> "Ingress", name |-> "cdnIngress"] >>

NamespaceManifest == [kind |-> "Namespace", name |-> "namespace"]

\* The create calls of createResources, in the order of its four loops.
ResourceOrderSwapped == statefulSets \o services \o deployments \o ingresses

ResourceOrder == statefulSets \o deployments \o services \o ingresses

NumResources == Len(ResourceOrder)

VARIABLES
  store,          \* tenant table: id -> [owner, status and the three credential
                  \* columns], for the ids that have a row
  writes,         \* per id: the writes to its row in order: status (REMOVED for
                  \* the removal), and the operation and caller that made it
  useTLS,         \* configuration value clusterUseTLS
  nsExists,       \* cluster: does namespace tenant-<id> exist
  resources,      \* cluster: the resources inside namespace tenant-<id>
  createCalls,    \* per id: the create calls received for tenant-<id>, with
                  \* the body sent and the outcome
  nsDeleteCalls,  \* per id: the deleteNamespace calls received for tenant-<id>
  nrandom,        \* the calls of crypto.randomBytes made so far
  creds,          \* createTenant: the configuration it generated
  cdraws,         \* createTenant: the credentials it drew, in order
  cpc,            \* createTenant that owns id: the await it is at
  cuser,          \* createTenant: its userId argument
  cidx,           \* createTenant: index of the next resource in createResources
  cupdated,       \* createTenant: status of updatedTenant (catch block)
  cresult,        \* createTenant: what the call gave back
  crow,           \* createTenant: the row it holds (tenant, then updatedTenant)
  dpc,            \* deleteTenant call: the await it is at
  duser,          \* deleteTenant call: its userId argument
  dtenant,        \* deleteTenant call: its tenantId argument
  dresult,        \* deleteTenant call: "none", "returned" or "threw"
  dcaught,        \* deleteTenant call: did its catch block run
  nlists,         \* the listTenants calls made so far
  listed,         \* what the last listTenants call returned, and to whom
  spc,            \* getComponentStatus: the await it is at
  stenant,        \* getComponentStatus: its tenantId argument
  component,      \* getComponentStatus: its component argument
  sreadNs,        \* getComponentStatus: the namespaces of its read requests
  depRead,        \* getComponentStatus: outcome of readNamespacedDeployment
  ssRead,         \* getComponentStatus: outcome of readNamespacedStatefulSet
  answer          \* getComponentStatus: what the call gave back

storeVars == <<store, writes>>
clusterVars == <<nsExists, resources, createCalls, nsDeleteCalls>>
createVars == <<cpc, cuser, cidx, cupdated, cresult, crow>>
credVars == <<nrandom, creds, cdraws>>
listVars == <<nlists, listed>>
statusVars == <<spc, stenant, component, sreadNs, depRead, ssRead, answer>>
deleteVars == <<dpc, duser, dtenant, dresult, dcaught>>
vars ==
  <<storeVars, useTLS, clusterVars, credVars, createVars, deleteVars, listVars,
    statusVars>>

\* The configuration of a createTenant that has not drawn it yet.
NoConfig ==
  [postgresUser |-> postgresUser, postgresPassword |-> NullSecret,
   postgresDatabase |-> postgresDatabase,
   minioAccessKey |-> NullSecret, minioSecretKey |-> NullSecret]

NoResult == [kind |-> "none", status |-> "none", accessUrl |-> NullUrl]

\* ------------------------------------------------------------ pure helpers
getAccessUrl(tenantId) ==
  << (IF useTLS THEN "https" ELSE "http"), "://", tenantId, ".", clusterDomain >>

\* KubernetesService.getAccessUrl
k8sGetAccessUrl(tenantId) ==
  << (IF useTLS THEN "https" ELSE "http"), "://", tenantId, ".", clusterDomain >>

\* ---------------------------------------------------------- namespace names
getNamespaceNameFirst(tenantId) == <<"tenant-", 1>>

\* KubernetesService.getNamespaceName
getNamespaceName(tenantId) == <<"tenant-", tenantId>>

resourcesGetNamespaceNameFirst(tenantId) == <<"tenant-", 1>>

\* getNamespaceName of the manifest builders
resourcesGetNamespaceName(tenantId) == <<"tenant-", tenantId>>

\* createResources: const namespace
createResourcesNamespace(tenantId) == <<"tenant-", tenantId>>

\* The cluster keeps its namespaces by name; the namespace named tenant-<n>
\* is kept under n.
NamespaceIndex(ns) == CHOOSE n \in TenantIds : ns = <<"tenant-", n>>

\* ---------------------------------------------------------------- manifests
\* getNamespace: metadata.name
getNamespace(tenantId) ==
  [env |-> << >>, rules |-> << >>,
   namespace |-> resourcesGetNamespaceName(tenantId),
   podLabel |-> "", containerPorts |-> {}, selector |-> "", servicePorts |-> {}]

\* The containerPort entries of the container of a workload.
ContainerPorts(r) ==
  CASE r = statefulSets[1] -> {5432}
    [] r = statefulSets[2] -> {9000, 9001}
    [] r = deployments[1] -> {3001}
    [] r = deployments[2] -> {3000}
    [] OTHER -> {}

getServiceFrontendPort(name, port) == [selector |-> name, ports |-> {3000}]

\* getService: spec.selector.app and spec.ports
getService(name, port) == [selector |-> name, ports |-> {port}]

\* The four getService calls of createResources.
ServiceOf(r) ==
  CASE r = services[1] -> getService("postgres", 5432)
    [] r = services[2] -> getService("minio", 9000)
    [] r = services[3] -> getService("backend", 3001)
    [] r = services[4] -> getService("frontend", 3000)
    [] OTHER -> [selector |-> "", ports |-> {}]

getIngressFixedHost(prefix, tenantId, host, paths) ==
  [host |-> (IF prefix # "" THEN <<prefix, ".">> ELSE << >>)
              \o <<tenantId, ".", "kite.internal">>,
   paths |-> paths]

\* getIngress: the one rule of the manifest
getIngress(prefix, tenantId, host, paths) ==
  [host |-> (IF prefix # "" THEN <<prefix, ".">> ELSE << >>)
              \o <<tenantId, ".", host>>,
   paths |-> paths]

\* The env entries of the container of a workload, as createResources sets
\* those that carry a credential, a URL or a host.
Env(tenantId, r, config) ==
  CASE r = statefulSets[1] ->
         [POSTGRES_PASSWORD |-> config.postgresPassword,
          POSTGRES_USER |-> config.postgresUser,
          POSTGRES_DB |-> config.postgresDatabase]
    [] r = statefulSets[2] ->
         [MINIO_ROOT_USER |-> config.minioAccessKey,
          MINIO_ROOT_PASSWORD |-> config.minioSecretKey]
    [] r = deployments[1] ->
         [COOKIE_DOMAIN |-> clusterDomain,
          FRONTEND_URL |-> k8sGetAccessUrl(tenantId),
          STORAGE_PUBLIC_URL |-> k8sGetAccessUrl(tenantId) \o <<"/cdn">>,
          STORAGE_ACCESS_KEY |-> config.minioAccessKey,
          STORAGE_SECRET_KEY |-> config.minioSecretKey,
          DATABASE_URL |->
            <<"postgresql://", "tenant", ":", config.postgresPassword,
              "@", "postgres:5432", "/", "tenantdb">>]
    [] r = deployments[2] ->
         [BACKEND_HOST |-> "backend:3001", CDN_HOST |-> "minio:9000"]
    [] OTHER -> << >>

\* The rules of an Ingress manifest, with host = clusterDomain.
Rules(tenantId, r) ==
  CASE r = ingresses[1] ->
         << getIngress("", tenantId, clusterDomain,
                       << [path |-> "/", port |-> 3000, serviceName |-> "frontend"] >>) >>
    [] r = ingresses[2] ->
         << getIngress("cdn", tenantId, clusterDomain,
                       << [path |-> "/", port |-> 9000, serviceName |-> "minio"] >>) >>
    [] OTHER -> << >>

\* The body of the create call for resource r of createResources.
Body(tenantId, r, config) ==
  [env |-> Env(tenantId, r, config), rules |-> Rules(tenantId, r),
   namespace |-> resourcesGetNamespaceName(tenantId),
   podLabel |-> IF r.kind \in {"StatefulSet", "Deployment"} THEN r.name ELSE "",
   containerPorts |-> ContainerPorts(r),
   selector |-> ServiceOf(r).selector,
   servicePorts |-> ServiceOf(r).ports]

\* ------------------------------------------------------------ tenant table
HasRow(t) == t \in DOMAIN store

Write(s, op, u) == [status |-> s, op |-> op, user |-> u]

\* A row as tenant.create inserts it: the credential columns are not set.
NewRow(u, s) ==
  [owner |-> u, status |-> s, postgresPassword |-> NullSecret,
   minioAccessKey |-> NullSecret, minioSecretKey |-> NullSecret]

StoreCreateReady(t, u) ==
  /\ store' = [x \in DOMAIN store \cup {t} |->
                 IF x = t THEN NewRow(u, READY) ELSE store[x]]
  /\ writes' = [writes EXCEPT ![t] = Append(@, Write(READY, "createTenant", u))]

\* prisma.tenant.create with status PROVISIONING, connected to User userId
StoreCreate(t, u) ==
  /\ store' = [x \in DOMAIN store \cup {t} |->
                 IF x = t THEN NewRow(u, PROVISIONING) ELSE store[x]]
  /\ writes' = [writes EXCEPT ![t] =
                  Append(@, Write(PROVISIONING, "createTenant", u))]

StoreUpdateResetSecrets(t, s, op, u) ==
  /\ store' = [store EXCEPT ![t] = NewRow(@.owner, s)]
  /\ writes' = [writes EXCEPT ![t] = Append(@, Write(s, op, u))]

\* prisma.tenant.update / updateMany of the status of an existing row
StoreUpdate(t, s, op, u) ==
  /\ store' = [store EXCEPT ![t].status = s]
  /\ writes' = [writes EXCEPT ![t] = Append(@, Write(s, op, u))]

StoreUpdateReadySwapped(t, c, u) ==
  /\ store' = [store EXCEPT ![t].status = READY,
                             ![t].postgresPassword = c.postgresPassword,
                             ![t].minioAccessKey = c.minioSecretKey,
                             ![t].minioSecretKey = c.minioAccessKey]
  /\ writes' = [writes EXCEPT ![t] = Append(@, Write(READY, "createTenant", u))]

\* prisma.tenant.update with status READY and the three credentials
StoreUpdateReady(t, c, u) ==
  /\ store' = [store EXCEPT ![t].status = READY,
                             ![t].postgresPassword = c.postgresPassword,
                             ![t].minioAccessKey = c.minioAccessKey,
                             ![t].minioSecretKey = c.minioSecretKey]
  /\ writes' = [writes EXCEPT ![t] = Append(@, Write(READY, "createTenant", u))]

MatchesAnyOwner(t, u) == HasRow(t)

\* The rows prisma.tenant.updateMany / delete select with
\* where: { id: tenantId, User: { id: userId } }
Matches(t, u) == HasRow(t) /\ store[t].owner = u

\* prisma.tenant.delete on a selected row
StoreDelete(t, op, u) ==
  /\ store' = [x \in DOMAIN store \ {t} |-> store[x]]
  /\ writes' = [writes EXCEPT ![t] = Append(@, Write(REMOVED, op, u))]

\* ------------------------------------------------------------------ cluster
\* A remote call may fail for any reason; it can succeed only when the
\* cluster accepts it.
\* createNamespace: k8sCoreApi.createNamespace with body getNamespace(tenantId)
K8sCreateNamespace(t, ok) ==
  LET body == getNamespace(t)
      ns == body.namespace
      k == NamespaceIndex(ns)
  IN /\ ok => ~nsExists[k]
     /\ createCalls' = [createCalls EXCEPT ![k] =
                          Append(@, [kind |-> NamespaceManifest.kind,
                                     name |-> NamespaceManifest.name,
                                     body |-> body, ok |-> ok,
                                     tenant |-> t, namespace |-> ns])]
     /\ nsExists' = [nsExists EXCEPT ![k] = @ \/ ok]
     /\ UNCHANGED <<resources, nsDeleteCalls>>

\* createNamespacedStatefulSet / Deployment / Service / Ingress with the
\* namespace of createResources; the cluster rejects a body of another
\* namespace
K8sCreateNamespaced(t, r, body, ok) ==
  LET ns == createResourcesNamespace(t)
      k == NamespaceIndex(ns)
  IN /\ ok => (nsExists[k] /\ r \notin resources[k] /\ body.namespace = ns)
     /\ createCalls' = [createCalls EXCEPT ![k] =
                          Append(@, [kind |-> r.kind, name |-> r.name,
                                     body |-> body, ok |-> ok,
                                     tenant |-> t, namespace |-> ns])]
     /\ resources' = [resources EXCEPT ![k] = IF ok THEN @ \cup {r} ELSE @]
     /\ UNCHANGED <<nsExists, nsDeleteCalls>>

\* KubernetesService.deleteTenant: one deleteNamespace call, which cascades
K8sDeleteTenant(t, op, u, ok) ==
  LET ns == getNamespaceName(t)
      k == NamespaceIndex(ns)
  IN /\ ok => nsExists[k]
     /\ nsDeleteCalls' = [nsDeleteCalls EXCEPT ![k] =
                            Append(@, [op |-> op, user |-> u, ok |-> ok,
                                       tenant |-> t, name |-> ns])]
     /\ nsExists' = [nsExists EXCEPT ![k] = @ /\ ~ok]
     /\ resources' = [resources EXCEPT ![k] = IF ok THEN {} ELSE @]
     /\ UNCHANGED createCalls

\* ------------------------------------------------------------- createTenant
Returned(s, url) == [kind |-> "returned", status |-> s, accessUrl |-> url]
Threw == [kind |-> "threw", status |-> "none", accessUrl |-> NullUrl]

\* The requests received so far.
Started ==
  Cardinality({t \in TenantIds : cpc[t] # "idle"})
    + Cardinality({d \in DeleteOps : dpc[d] # "idle"})
    + nlists

CanStart == Started < MaxRequests

\* Ids come from the table and are never reused.
FreshId(t) == cpc[t] = "idle" /\ \A x \in TenantIds : x < t => cpc[x] # "idle"

\* User ids are opaque and interchangeable: the first caller is named "u1".
FirstCaller(u, t) == t = 1 => u = "u1"

\* tenant.create with status PROVISIONING, then the configuration is drawn
CreateTenantStart(u, t) ==
  /\ CanStart
  /\ FreshId(t)
  /\ FirstCaller(u, t)
  /\ StoreCreate(t, u)
  /\ creds' = [creds EXCEPT ![t] =
                 [postgresUser |-> postgresUser,
                  postgresPassword |-> randomBytesHex(16, nrandom + 1),
                  postgresDatabase |-> postgresDatabase,
                  minioAccessKey |-> randomBytesHex(16, nrandom + 2),
                  minioSecretKey |-> randomBytesHex(32, nrandom + 3)]]
  /\ cdraws' = [cdraws EXCEPT ![t] = @ \o SecretKeys]
  /\ nrandom' = nrandom + 3
  /\ cpc' = [cpc EXCEPT ![t] = "createNamespace"]
  /\ cuser' = [cuser EXCEPT ![t] = u]
  /\ crow' = [crow EXCEPT ![t] = store'[t]]
  /\ UNCHANGED <<useTLS, clusterVars, cidx, cupdated, cresult, deleteVars, listVars, statusVars>>

\* await createNamespace(tenant.id) resolves
CreateNamespaceOk(t) ==
  /\ cpc[t] = "createNamespace"
  /\ K8sCreateNamespace(t, TRUE)
  /\ cpc' = [cpc EXCEPT ![t] = "createResources"]
  /\ UNCHANGED <<storeVars, useTLS, credVars, listVars, statusVars, cuser, cidx, cupdated, cresult, crow, deleteVars>>

\* await createNamespace(tenant.id) rejects: control goes to the catch block
CreateNamespaceFail(t) ==
  /\ cpc[t] = "createNamespace"
  /\ K8sCreateNamespace(t, FALSE)
  /\ cpc' = [cpc EXCEPT ![t] = "updateError"]
  /\ UNCHANGED <<storeVars, useTLS, credVars, listVars, statusVars, cuser, cidx, cupdated, cresult, crow, deleteVars>>

\* one iteration of the loops of createResources resolves
CreateResourceOk(t) ==
  /\ cpc[t] = "createResources"
  /\ K8sCreateNamespaced(t, ResourceOrder[cidx[t]],
                         Body(t, ResourceOrder[cidx[t]], creds[t]), TRUE)
  /\ cidx' = [cidx EXCEPT ![t] = @ + 1]
  /\ cpc' = [cpc EXCEPT ![t] =
               IF cidx[t] = NumResources THEN "updateReady" ELSE @]
  /\ UNCHANGED <<storeVars, useTLS, credVars, listVars, statusVars, cuser, cupdated, cresult, crow, deleteVars>>

CreateResourceFailContinue(t) ==
  /\ cpc[t] = "createResources"
  /\ K8sCreateNamespaced(t, ResourceOrder[cidx[t]],
                         Body(t, ResourceOrder[cidx[t]], creds[t]), FALSE)
  /\ cidx' = [cidx EXCEPT ![t] = @ + 1]
  /\ cpc' = [cpc EXCEPT ![t] =
               IF cidx[t] = NumResources THEN "updateError" ELSE @]
  /\ UNCHANGED <<storeVars, useTLS, credVars, listVars, statusVars, cuser, cupdated, cresult, crow, deleteVars>>

\* one iteration rejects: createResources rejects, control goes to the catch
CreateResourceFail(t) ==
  /\ cpc[t] = "createResources"
  /\ K8sCreateNamespaced(t, ResourceOrder[cidx[t]],
                         Body(t, ResourceOrder[cidx[t]], creds[t]), FALSE)
  /\ cpc' = [cpc EXCEPT ![t] = "updateError"]
  /\ UNCHANGED <<storeVars, useTLS, credVars, listVars, statusVars, cuser, cidx, cupdated, cresult, crow, deleteVars>>

CreateUpdateReadyThenCatch(t) ==
  /\ cpc[t] = "updateReady"
  /\ IF HasRow(t)
       THEN StoreUpdateReady(t, creds[t], cuser[t])
       ELSE UNCHANGED storeVars
  /\ cpc' = [cpc EXCEPT ![t] = "updateError"]
  /\ UNCHANGED <<useTLS, credVars, listVars, statusVars, clusterVars, cuser, cidx, cupdated, cresult, crow, deleteVars>>

\* tenant.update to READY, then return; update rejects when the row is gone
CreateUpdateReady(t) ==
  /\ cpc[t] = "updateReady"
  /\ IF HasRow(t)
       THEN /\ StoreUpdateReady(t, creds[t], cuser[t])
            /\ cpc' = [cpc EXCEPT ![t] = "done"]
            /\ cresult' = [cresult EXCEPT ![t] = Returned(READY, getAccessUrl(t))]
       ELSE /\ cpc' = [cpc EXCEPT ![t] = "updateError"]
            /\ UNCHANGED <<storeVars, cresult>>
  /\ UNCHANGED <<useTLS, credVars, listVars, statusVars, clusterVars, cuser, cidx, cupdated, crow, deleteVars>>

CreateUpdateErrorNoCompensate(t) ==
  /\ cpc[t] = "updateError"
  /\ IF HasRow(t)
       THEN /\ StoreUpdate(t, ERROR, "createTenant", cuser[t])
            /\ cupdated' = [cupdated EXCEPT ![t] = store'[t].status]
            /\ crow' = [crow EXCEPT ![t] = store'[t]]
            /\ cpc' = [cpc EXCEPT ![t] = "done"]
            /\ cresult' = [cresult EXCEPT ![t] = Returned(ERROR, NullUrl)]
       ELSE /\ cpc' = [cpc EXCEPT ![t] = "done"]
            /\ cresult' = [cresult EXCEPT ![t] = Threw]
            /\ UNCHANGED <<storeVars, cupdated, crow>>
  /\ UNCHANGED <<useTLS, credVars, listVars, statusVars, clusterVars, cuser, cidx, deleteVars>>

\* catch block: tenant.update to ERROR; rejects when the row is gone
CreateUpdateError(t) ==
  /\ cpc[t] = "updateError"
  /\ IF HasRow(t)
       THEN /\ StoreUpdate(t, ERROR, "createTenant", cuser[t])
            /\ cupdated' = [cupdated EXCEPT ![t] = store'[t].status]
            /\ crow' = [crow EXCEPT ![t] = store'[t]]
            /\ cpc' = [cpc EXCEPT ![t] = "deleteTenant"]
            /\ UNCHANGED cresult
       ELSE /\ cpc' = [cpc EXCEPT ![t] = "done"]
            /\ cresult' = [cresult EXCEPT ![t] = Threw]
            /\ UNCHANGED <<storeVars, cupdated, crow>>
  /\ UNCHANGED <<useTLS, credVars, listVars, statusVars, clusterVars, cuser, cidx, deleteVars>>

CreateCompensateOkFallThrough(t) ==
  /\ cpc[t] = "deleteTenant"
  /\ K8sDeleteTenant(t, "createTenant", cuser[t], TRUE)
  /\ cpc' = [cpc EXCEPT ![t] = "updateReady"]
  /\ UNCHANGED <<storeVars, useTLS, credVars, listVars, statusVars, cuser, cidx, cupdated, cresult, crow, deleteVars>>

\* catch block: await kubernetesService.deleteTenant(tenant.id) resolves
CreateCompensateOk(t) ==
  /\ cpc[t] = "deleteTenant"
  /\ K8sDeleteTenant(t, "createTenant", cuser[t], TRUE)
  /\ cpc' = [cpc EXCEPT ![t] = "done"]
  /\ cresult' = [cresult EXCEPT ![t] = Returned(cupdated[t], NullUrl)]
  /\ UNCHANGED <<storeVars, useTLS, credVars, listVars, statusVars, cuser, cidx, cupdated, crow, deleteVars>>

\* catch block: the same call rejects; nothing catches it
CreateCompensateFail(t) ==
  /\ cpc[t] = "deleteTenant"
  /\ K8sDeleteTenant(t, "createTenant", cuser[t], FALSE)
  /\ cpc' = [cpc EXCEPT ![t] = "done"]
  /\ cresult' = [cresult EXCEPT ![t] = Threw]
  /\ UNCHANGED <<storeVars, useTLS, credVars, listVars, statusVars, cuser, cidx, cupdated, crow, deleteVars>>

\* ------------------------------------------------------------- deleteTenant
DeleteTenantStartNoStatus(d, u, t) ==
  /\ CanStart
  /\ dpc[d] = "idle"
  /\ \A x \in DeleteOps : x < d => dpc[x] # "idle"
  /\ cpc[t] # "idle"
  /\ dpc' = [dpc EXCEPT ![d] = "deleteTenant"]
  /\ duser' = [duser EXCEPT ![d] = u]
  /\ dtenant' = [dtenant EXCEPT ![d] = t]
  /\ UNCHANGED <<storeVars, useTLS, credVars, listVars, statusVars, clusterVars, createVars, dresult, dcaught>>

\* tenant.updateMany to DELETING on the rows of this id owned by userId
DeleteTenantStart(d, u, t) ==
  /\ CanStart
  /\ dpc[d] = "idle"
  /\ \A x \in DeleteOps : x < d => dpc[x] # "idle"
  /\ cpc[t] # "idle"
  /\ IF Matches(t, u)
       THEN StoreUpdate(t, DELETING, "deleteTenant", u)
       ELSE UNCHANGED storeVars
  /\ dpc' = [dpc EXCEPT ![d] = "deleteTenant"]
  /\ duser' = [duser EXCEPT ![d] = u]
  /\ dtenant' = [dtenant EXCEPT ![d] = t]
  /\ UNCHANGED <<useTLS, credVars, listVars, statusVars, clusterVars, createVars, dresult, dcaught>>

\* await kubernetesService.deleteTenant(tenantId) resolves
DeleteNamespaceOk(d) ==
  /\ dpc[d] = "deleteTenant"
  /\ K8sDeleteTenant(dtenant[d], "deleteTenant", duser[d], TRUE)
  /\ dpc' = [dpc EXCEPT ![d] = "delete"]
  /\ UNCHANGED <<storeVars, useTLS, credVars, listVars, statusVars, createVars, duser, dtenant, dresult, dcaught>>

DeleteNamespaceFailThrows(d) ==
  /\ dpc[d] = "deleteTenant"
  /\ K8sDeleteTenant(dtenant[d], "deleteTenant", duser[d], FALSE)
  /\ dpc' = [dpc EXCEPT ![d] = "done"]
  /\ dresult' = [dresult EXCEPT ![d] = "threw"]
  /\ UNCHANGED <<storeVars, useTLS, credVars, listVars, statusVars, createVars, duser, dtenant, dcaught>>

\* the same call rejects: the catch block logs it, and the function goes on
DeleteNamespaceFail(d) ==
  /\ dpc[d] = "deleteTenant"
  /\ K8sDeleteTenant(dtenant[d], "deleteTenant", duser[d], FALSE)
  /\ dcaught' = [dcaught EXCEPT ![d] = TRUE]
  /\ dpc' = [dpc EXCEPT ![d] = "delete"]
  /\ UNCHANGED <<storeVars, useTLS, credVars, listVars, statusVars, createVars, duser, dtenant, dresult>>

\* tenant.delete of the row of this id owned by userId; rejects without one
DeleteRecord(d) ==
  /\ dpc[d] = "delete"
  /\ IF Matches(dtenant[d], duser[d])
       THEN /\ StoreDelete(dtenant[d], "deleteTenant", duser[d])
            /\ dresult' = [dresult EXCEPT ![d] = "returned"]
       ELSE /\ UNCHANGED storeVars
            /\ dresult' = [dresult EXCEPT ![d] = "threw"]
  /\ dpc' = [dpc EXCEPT ![d] = "done"]
  /\ UNCHANGED <<useTLS, credVars, listVars, statusVars, clusterVars, createVars, duser, dtenant, dcaught>>

\* -------------------------------------------------------------- listTenants
\* String(value) of a credential column
String(v) == IF v = NullSecret THEN <<"null">> ELSE v

\* mapSecrets: one key/value pair per credential column
mapSecrets(row) ==
  << [key |-> SecretKeys[1], value |-> String(row.postgresPassword)],
     [key |-> SecretKeys[2], value |-> String(row.minioAccessKey)],
     [key |-> SecretKeys[3], value |-> String(row.minioSecretKey)] >>

findManyAll(u) == DOMAIN store

\* prisma.tenant.findMany where: { User: { id: userId } }
findMany(u) == {t \in DOMAIN store : store[t].owner = u}

\* listTenants: findMany, then the map over its rows
ListTenants(u) ==
  /\ CanStart
  /\ nlists' = nlists + 1
  /\ listed' =
       [user |-> u,
        tenants |->
          [t \in findMany(u) |->
             [status |-> store[t].status,
              accessUrl |-> IF store[t].status = READY
                              THEN getAccessUrl(t) ELSE NullUrl,
              secrets |-> mapSecrets(store[t])]]]
  /\ UNCHANGED <<storeVars, useTLS, clusterVars, credVars, createVars, deleteVars,
                 statusVars>>

\* ---------------------------------------------------------- ComponentStatus
\* ComponentStatus.ERROR has the value of TenantStatus.ERROR.
RUNNING == "running"
PENDING == "pending"
UNHEALTHY == "unhealthy"
UNAVAILABLE == "unavailable"
UNKNOWN == "unknown"
ComponentStatus == {RUNNING, PENDING, UNHEALTHY, ERROR, UNAVAILABLE, UNKNOWN}

\* An optional number field of a status: absent, or a value.
Absent == << >>
Counts == {Absent} \cup {<<n>> : n \in 0..MaxReplicas}

\* field ?? 0
OrZero(x) == IF x = Absent THEN 0 ELSE x[1]

Condition(type, status, reason) ==
  [type |-> type, status |-> status, reason |-> reason]

\* The conditions a workload status may carry.
Conditions ==
  { Condition("Failed", "True", "FailedCreate"),
    Condition("Progressing", "True", "NewReplicaSetAvailable"),
    Condition("Progressing", "True", "ReplicaSetUpdated"),
    Condition("Progressing", "True", "DeploymentPaused"),
    Condition("Progressing", "False", "ProgressDeadlineExceeded") }

\* V1DeploymentStatus, the fields getComponentStatus reads
DeploymentStatuses ==
  [replicas : Counts, availableReplicas : Counts, updatedReplicas : Counts,
   readyReplicas : Counts, unavailableReplicas : Counts,
   collisionCount : {Absent, <<0>>, <<1>>}, conditions : SUBSET Conditions]

\* V1StatefulSetStatus, the fields getComponentStatus reads
StatefulSetStatuses ==
  [replicas : Counts, availableReplicas : Counts, readyReplicas : Counts,
   currentReplicas : Counts, conditions : SUBSET Conditions]

\* What a read of the cluster can throw: the object is not there, or the
\* request failed on the way.
Faults == {"HTTP-Code: 404 Not Found", "connect ECONNREFUSED"}

Components == {"backend", "postgres"}

NullMessage == << >>
Answer(name, status, message) ==
  [name |-> name, status |-> status, message |-> message]

isPodReadyNoUnavailable(status) ==
  /\ OrZero(status.availableReplicas) = OrZero(status.replicas)
  /\ OrZero(status.updatedReplicas) = OrZero(status.replicas)
  /\ OrZero(status.readyReplicas) = OrZero(status.replicas)

isPodReady(status) ==
  /\ OrZero(status.availableReplicas) = OrZero(status.replicas)
  /\ OrZero(status.updatedReplicas) = OrZero(status.replicas)
  /\ OrZero(status.readyReplicas) = OrZero(status.replicas)
  /\ OrZero(status.unavailableReplicas) = 0

isPodUnhealthy(status) ==
  \/ OrZero(status.unavailableReplicas) > 0
  \/ OrZero(status.updatedReplicas) < OrZero(status.replicas)
  \/ OrZero(status.readyReplicas) < OrZero(status.replicas)

isPodPendingEither(status) ==
  LET isProgressing ==
        \E condition \in status.conditions :
          /\ condition.type = "Progressing"
          /\ condition.status = "True"
          /\ condition.reason \in {"NewReplicaSetAvailable", "ReplicaSetUpdated"}
  IN \/ isProgressing
     \/ /\ OrZero(status.updatedReplicas) > 0
        /\ OrZero(status.updatedReplicas) < OrZero(status.replicas)
     \/ OrZero(status.readyReplicas) < OrZero(status.replicas)
     \/ OrZero(status.availableReplicas) < OrZero(status.replicas)

isPodPending(status) ==
  LET isProgressing ==
        \E condition \in status.conditions :
          /\ condition.type = "Progressing"
          /\ condition.status = "True"
          /\ condition.reason \in {"NewReplicaSetAvailable", "ReplicaSetUpdated"}
  IN \/ isProgressing
     \/ /\ OrZero(status.updatedReplicas) > 0
        /\ OrZero(status.updatedReplicas) < OrZero(status.replicas)
     \/ /\ OrZero(status.readyReplicas) < OrZero(status.replicas)
        /\ OrZero(status.availableReplicas) < OrZero(status.replicas)

isPodErrorCollisionOnly(status) == OrZero(status.collisionCount) > 0

isPodError(status) ==
  \/ OrZero(status.collisionCount) > 0
  \/ \E condition \in status.conditions : condition.type = "Failed"

DeploymentAnswerUnhealthyFirst(name, status) ==
  IF isPodReady(status) THEN Answer(name, RUNNING, NullMessage)
  ELSE IF isPodError(status)
    THEN Answer(name, ERROR, <<"Pods are in error state">>)
  ELSE IF isPodUnhealthy(status)
    THEN Answer(name, UNHEALTHY, <<"Pods are unhealthy">>)
  ELSE IF isPodPending(status)
    THEN Answer(name, PENDING,
                <<status.unavailableReplicas, " replicas are not yet ready">>)
  ELSE Answer(name, UNKNOWN, <<"Unknown status">>)

DeploymentAnswerNoFallThrough(name, status) ==
  IF isPodReady(status) THEN Answer(name, RUNNING, NullMessage)
  ELSE IF isPodError(status)
    THEN Answer(name, ERROR, <<"Pods are in error state">>)
  ELSE IF isPodPending(status)
    THEN Answer(name, PENDING,
                <<status.unavailableReplicas, " replicas are not yet ready">>)
  ELSE IF isPodUnhealthy(status)
    THEN Answer(name, UNHEALTHY, <<"Pods are unhealthy">>)
  ELSE Answer(name, "none", NullMessage)

\* The if-chain on a Deployment status; UNKNOWN is the return after the try.
DeploymentAnswer(name, status) ==
  IF isPodReady(status) THEN Answer(name, RUNNING, NullMessage)
  ELSE IF isPodError(status)
    THEN Answer(name, ERROR, <<"Pods are in error state">>)
  ELSE IF isPodPending(status)
    THEN Answer(name, PENDING,
                <<status.unavailableReplicas, " replicas are not yet ready">>)
  ELSE IF isPodUnhealthy(status)
    THEN Answer(name, UNHEALTHY, <<"Pods are unhealthy">>)
  ELSE Answer(name, UNKNOWN, <<"Unknown status">>)

StatefulSetAnswerPendingFirst(name, status) ==
  LET desiredReplicas == OrZero(status.replicas)
      availableReplicas == OrZero(status.availableReplicas)
      readyReplicas == OrZero(status.readyReplicas)
      currentReplicas == OrZero(status.currentReplicas)
  IN IF /\ availableReplicas = desiredReplicas
        /\ readyReplicas = desiredReplicas
        /\ currentReplicas = desiredReplicas
       THEN Answer(name, RUNNING, NullMessage)
     ELSE IF \/ availableReplicas < desiredReplicas
             \/ readyReplicas < desiredReplicas
             \/ currentReplicas < desiredReplicas
       THEN Answer(name, PENDING,
                   << <<desiredReplicas - availableReplicas>>,
                      " replicas are not yet ready" >>)
     ELSE IF \E c \in status.conditions : c.type = "Failed"
       THEN Answer(name, ERROR, <<"Pods are in error state">>)
     ELSE IF \E c \in status.conditions :
               c.type = "Progressing" /\ c.status = "False"
       THEN Answer(name, UNHEALTHY, <<"Pods are unhealthy">>)
     ELSE Answer(name, UNKNOWN, <<"Unknown status">>)

\* The if-chain on a StatefulSet status.
StatefulSetAnswer(name, status) ==
  LET desiredReplicas == OrZero(status.replicas)
      availableReplicas == OrZero(status.availableReplicas)
      readyReplicas == OrZero(status.readyReplicas)
      currentReplicas == OrZero(status.currentReplicas)
  IN IF /\ availableReplicas = desiredReplicas
        /\ readyReplicas = desiredReplicas
        /\ currentReplicas = desiredReplicas
       THEN Answer(name, RUNNING, NullMessage)
     ELSE IF \E c \in status.conditions : c.type = "Failed"
       THEN Answer(name, ERROR, <<"Pods are in error state">>)
     ELSE IF \/ availableReplicas < desiredReplicas
             \/ readyReplicas < desiredReplicas
             \/ currentReplicas < desiredReplicas
       THEN Answer(name, PENDING,
                   << <<desiredReplicas - availableReplicas>>,
                      " replicas are not yet ready" >>)
     ELSE IF \E c \in status.conditions :
               c.type = "Progressing" /\ c.status = "False"
       THEN Answer(name, UNHEALTHY, <<"Pods are unhealthy">>)
     ELSE Answer(name, UNKNOWN, <<"Unknown status">>)

\* The outcome of a read: the object with or without a status, or a fault.
NoRead == [kind |-> "none", status |-> << >>, fault |-> ""]
Found(status) == [kind |-> "found", status |-> status, fault |-> ""]
FoundNoStatus == [kind |-> "nostatus", status |-> << >>, fault |-> ""]
ReadThrew(fault) == [kind |-> "threw", status |-> << >>, fault |-> fault]

\* readNamespacedDeployment resolves with a status: the if-chain answers
StatusDeploymentFound(status) ==
  /\ spc = "readDeployment"
  /\ depRead' = Found(status)
  /\ answer' = DeploymentAnswer(component, status)
  /\ spc' = "done"
  /\ UNCHANGED <<storeVars, useTLS, clusterVars, credVars, createVars, deleteVars,
                 listVars, stenant, component, sreadNs, ssRead>>

\* readNamespacedDeployment resolves with an object that has no status
StatusDeploymentNoStatus ==
  /\ spc = "readDeployment"
  /\ depRead' = FoundNoStatus
  /\ answer' = Answer(component, UNAVAILABLE, <<"No status available">>)
  /\ spc' = "done"
  /\ UNCHANGED <<storeVars, useTLS, clusterVars, credVars, createVars, deleteVars,
                 listVars, stenant, component, sreadNs, ssRead>>

\* readNamespacedDeployment rejects: the catch block reads the StatefulSet
\* in the same namespace
StatusDeploymentThrows(fault) ==
  /\ spc = "readDeployment"
  /\ depRead' = ReadThrew(fault)
  /\ sreadNs' = Append(sreadNs, getNamespaceName(stenant))
  /\ spc' = "readStatefulSet"
  /\ UNCHANGED <<storeVars, useTLS, clusterVars, credVars, createVars, deleteVars,
                 listVars, stenant, component, ssRead, answer>>

\* readNamespacedStatefulSet resolves with a status
StatusStatefulSetFound(status) ==
  /\ spc = "readStatefulSet"
  /\ ssRead' = Found(status)
  /\ answer' = StatefulSetAnswer(component, status)
  /\ spc' = "done"
  /\ UNCHANGED <<storeVars, useTLS, clusterVars, credVars, createVars, deleteVars,
                 listVars, stenant, component, sreadNs, depRead>>

\* readNamespacedStatefulSet resolves with an object that has no status
StatusStatefulSetNoStatus ==
  /\ spc = "readStatefulSet"
  /\ ssRead' = FoundNoStatus
  /\ answer' = Answer(component, UNAVAILABLE, <<"No status available">>)
  /\ spc' = "done"
  /\ UNCHANGED <<storeVars, useTLS, clusterVars, credVars, createVars, deleteVars,
                 listVars, stenant, component, sreadNs, depRead>>

StatusStatefulSetThrowsUnknown(fault) ==
  /\ spc = "readStatefulSet"
  /\ ssRead' = ReadThrew(fault)
  /\ answer' = Answer(component, UNKNOWN, <<"Unknown status">>)
  /\ spc' = "done"
  /\ UNCHANGED <<storeVars, useTLS, clusterVars, credVars, createVars, deleteVars,
                 listVars, stenant, component, sreadNs, depRead>>

\* readNamespacedStatefulSet rejects too: the inner catch answers
StatusStatefulSetThrows(fault) ==
  /\ spc = "readStatefulSet"
  /\ ssRead' = ReadThrew(fault)
  /\ answer' = Answer(component, ERROR, <<"Component not found">>)
  /\ spc' = "done"
  /\ UNCHANGED <<storeVars, useTLS, clusterVars, credVars, createVars, deleteVars,
                 listVars, stenant, component, sreadNs, depRead>>

\* ------------------------------------------------------------ specification
\* The service after construction: empty table and cluster, nothing called.
InitTenants ==
  /\ store = << >>
  /\ writes = [t \in TenantIds |-> << >>]
  /\ nsExists = [t \in TenantIds |-> FALSE]
  /\ resources = [t \in TenantIds |-> {}]
  /\ createCalls = [t \in TenantIds |-> << >>]
  /\ nsDeleteCalls = [t \in TenantIds |-> << >>]
  /\ nrandom = 0
  /\ creds = [t \in TenantIds |-> NoConfig]
  /\ cdraws = [t \in TenantIds |-> << >>]
  /\ cpc = [t \in TenantIds |-> "idle"]
  /\ cuser = [t \in TenantIds |-> "u1"]
  /\ cidx = [t \in TenantIds |-> 1]
  /\ cupdated = [t \in TenantIds |-> "none"]
  /\ cresult = [t \in TenantIds |-> NoResult]
  /\ crow = [t \in TenantIds |-> << >>]
  /\ dpc = [d \in DeleteOps |-> "idle"]
  /\ duser = [d \in DeleteOps |-> "u1"]
  /\ dtenant = [d \in DeleteOps |-> 1]
  /\ dresult = [d \in DeleteOps |-> "none"]
  /\ dcaught = [d \in DeleteOps |-> FALSE]
  /\ nlists = 0
  /\ listed = [user |-> "u1", tenants |-> << >>]

\* No getComponentStatus call is made.
NoStatusCall ==
  /\ spc = "idle"
  /\ stenant = 1
  /\ component = "backend"
  /\ sreadNs = << >>
  /\ depRead = NoRead
  /\ ssRead = NoRead
  /\ answer = Answer("backend", "none", NullMessage)

Init ==
  /\ InitTenants
  /\ useTLS = TRUE
  /\ NoStatusCall

Next ==
  \/ \E u \in Users, t \in TenantIds : CreateTenantStart(u, t)
  \/ \E t \in TenantIds : CreateNamespaceOk(t)
  \/ \E t \in TenantIds : CreateNamespaceFail(t)
  \/ \E t \in TenantIds : CreateResourceOk(t)
  \/ \E t \in TenantIds : CreateResourceFail(t)
  \/ \E t \in TenantIds : CreateUpdateReady(t)
  \/ \E t \in TenantIds : CreateUpdateError(t)
  \/ \E t \in TenantIds : CreateCompensateOk(t)
  \/ \E t \in TenantIds : CreateCompensateFail(t)
  \/ \E d \in DeleteOps, u \in Users, t \in TenantIds : DeleteTenantStart(d, u, t)
  \/ \E d \in DeleteOps : DeleteNamespaceOk(d)
  \/ \E d \in DeleteOps : DeleteNamespaceFail(d)
  \/ \E d \in DeleteOps : DeleteRecord(d)
  \/ \E u \in Users : ListTenants(u)

Spec == Init /\ [][Next]_vars

\* The same service started with either value of clusterUseTLS.
InitTLS ==
  /\ InitTenants
  /\ useTLS \in BOOLEAN
  /\ NoStatusCall

SpecTLS == InitTLS /\ [][Next]_vars

\* One getComponentStatus call, right after its readNamespacedDeployment
\* request went out, for each component name.
InitStatus ==
  /\ InitTenants
  /\ useTLS = TRUE
  /\ spc = "readDeployment"
  /\ stenant \in TenantIds
  /\ component \in Components
  /\ sreadNs = <<getNamespaceName(stenant)>>
  /\ depRead = NoRead
  /\ ssRead = NoRead
  /\ answer = Answer(component, "none", NullMessage)

NextStatus ==
  \/ /\ spc = "readDeployment"
     /\ \E status \in DeploymentStatuses : StatusDeploymentFound(status)
  \/ StatusDeploymentNoStatus
  \/ \E fault \in Faults : StatusDeploymentThrows(fault)
  \/ /\ spc = "readStatefulSet"
     /\ \E status \in StatefulSetStatuses : StatusStatefulSetFound(status)
  \/ StatusStatefulSetNoStatus
  \/ \E fault \in Faults : StatusStatefulSetThrows(fault)

SpecStatus == InitStatus /\ [][NextStatus]_vars

\* ---------------------------------------------------------------------
\* createTenant with cluster calls that may stay unanswered
\* ---------------------------------------------------------------------

\* The promise of the cluster call createTenant awaits never settles: no
\* timeout or abort is attached to the call, so the function stays
\* suspended at that await.
CreateCallNeverAnswers(t) ==
  /\ cpc[t] \in {"createNamespace", "createResources", "deleteTenant"}
  /\ cpc' = [cpc EXCEPT ![t] = "awaiting"]
  /\ UNCHANGED <<storeVars, useTLS, clusterVars, credVars, cuser, cidx,
                 cupdated, cresult, crow, deleteVars, listVars, statusVars>>

\* The continuations of one createTenant call.
CreateStep(t) ==
  \/ CreateNamespaceOk(t)
  \/ CreateNamespaceFail(t)
  \/ CreateResourceOk(t)
  \/ CreateResourceFail(t)
  \/ CreateUpdateReady(t)
  \/ CreateUpdateError(t)
  \/ CreateCompensateOk(t)
  \/ CreateCompensateFail(t)

NextLive ==
  \/ Next
  \/ \E t \in TenantIds : CreateCallNeverAnswers(t)

\* The event loop runs the continuation of every settled promise, and a
\* call that is going to be answered is answered.
Fairness == \A t \in TenantIds : WF_vars(CreateStep(t))

SpecLive == Init /\ [][NextLive]_vars /\ Fairness

\* =================================================================== claims
Idx(q) == 1..Len(q)

\* Some cluster create call of the createTenant of t was rejected.
CreateFailed(t) == \E i \in Idx(createCalls[t]) : ~createCalls[t][i].ok

\* The namespace deletions issued by the createTenant of t.
CompensatingDeletes(t) ==
  {i \in Idx(nsDeleteCalls[t]) : nsDeleteCalls[t][i].op = "createTenant"}

WroteStatus(t, s) == \E i \in Idx(writes[t]) : writes[t][i].status = s

\* The order the specification states, written out call by call.
StatedOrder ==
  << <<"Namespace", "namespace">>,
     <<"StatefulSet", "postgres">>, <<"StatefulSet", "minio">>,
     <<"Deployment", "backend">>, <<"Deployment", "frontend">>,
     <<"Service", "postgres">>, <<"Service", "minio">>,
     <<"Service", "backend">>, <<"Service", "frontend">>,
     <<"Ingress", "ingress">>, <<"Ingress", "cdnIngress">> >>

\* C1: the create calls of a createTenant arrive in the order namespace,
\* StatefulSets (postgres, minio), Deployments (backend, frontend), Services
\* (postgres, minio, backend, frontend), Ingresses (primary, cdn), and each
\* call is issued only after all calls before it have succeeded.
C1_CreateOrder ==
  \A t \in TenantIds :
    /\ Len(createCalls[t]) <= Len(StatedOrder)
    /\ \A i \in Idx(createCalls[t]) :
         /\ <<createCalls[t][i].kind, createCalls[t][i].name>> = StatedOrder[i]
         /\ i < Len(createCalls[t]) => createCalls[t][i].ok

C1_Witness ==
  \E t \in TenantIds :
    /\ Len(createCalls[t]) = Len(StatedOrder)
    /\ \A i \in Idx(createCalls[t]) : createCalls[t][i].ok

\* C2: once a cluster create call of a createTenant has failed, that
\* createTenant issues no further create call: a failed call is the last one.
C2_AbortOnFailure ==
  \A t \in TenantIds :
    \A i \in Idx(createCalls[t]) :
      ~createCalls[t][i].ok => i = Len(createCalls[t])

C2_Witness ==
  \E t \in TenantIds :
    /\ cpc[t] = "done"
    /\ CreateFailed(t)
    /\ Len(createCalls[t]) \in 2..(Len(StatedOrder) - 1)

\* C3: whenever a cluster create call of a createTenant failed, that
\* createTenant persists Error, issues exactly one namespace deletion, and,
\* when the deletion succeeds, returns status Error with a null access URL.
C3_ErrorPathAsStated ==
  \A t \in TenantIds :
    (cpc[t] = "done" /\ CreateFailed(t)) =>
      /\ \E i \in Idx(writes[t]) : writes[t][i] = Write(ERROR, "createTenant", cuser[t])
      /\ Cardinality(CompensatingDeletes(t)) = 1
      /\ \A i \in CompensatingDeletes(t) :
           nsDeleteCalls[t][i].ok => cresult[t] = Returned(ERROR, NullUrl)

\* C4: when a provisioning step failed and the compensating namespace
\* deletion failed too, createTenant still returns the tenant with status
\* Error and no access URL, and Error is the last status it persisted.
C4_CompensationFailureAsStated ==
  \A t \in TenantIds :
    ( /\ cpc[t] = "done"
      /\ CreateFailed(t)
      /\ \E i \in CompensatingDeletes(t) : ~nsDeleteCalls[t][i].ok ) =>
      /\ cresult[t] = Returned(ERROR, NullUrl)
      /\ WroteStatus(t, ERROR)
      /\ ~WroteStatus(t, READY)

\* C5: a deleteTenant of a caller who does not own the tenant issues no
\* namespace deletion for tenant-<tenantId>.
C5_NoForeignNamespaceDeleteAsStated ==
  \A t \in TenantIds :
    \A i \in Idx(nsDeleteCalls[t]) :
      nsDeleteCalls[t][i].op = "deleteTenant" => nsDeleteCalls[t][i].user = cuser[t]

\* C6: a deleteTenant of a caller who does not own the tenant writes nothing
\* to its record: every status Deleting and every removal that a deleteTenant
\* makes is made for the owner.
C6_ForeignDeleteLeavesRecord ==
  \A t \in TenantIds :
    \A i \in Idx(writes[t]) :
      writes[t][i].op = "deleteTenant" => writes[t][i].user = cuser[t]

C6_Witness ==
  \E d \in DeleteOps :
    /\ dpc[d] = "done"
    /\ duser[d] # cuser[dtenant[d]]
    /\ HasRow(dtenant[d])
    /\ dresult[d] = "threw"

\* C7 as stated: the only changes of a record are Provisioning->Ready,
\* Provisioning->Error, Ready->Deleting, and removal from Deleting.
C7_TransitionsAsStated ==
  \A t \in TenantIds :
    \A i \in 2..Len(writes[t]) :
      <<writes[t][i - 1].status, writes[t][i].status>> \in
        { <<PROVISIONING, READY>>, <<PROVISIONING, ERROR>>,
          <<READY, DELETING>>, <<DELETING, REMOVED>> }

\* C7 amended: a record changes only (a) to Ready or Error, written by its
\* createTenant, from Provisioning or from a Deleting that a deleteTenant
\* wrote meanwhile; (b) to Deleting, from any status, written by a
\* deleteTenant of its owner; (c) by removal, made by a deleteTenant of its
\* owner after a deleteTenant of the owner wrote Deleting, the status at
\* removal being Deleting, Ready or Error. Nothing follows a removal, nothing
\* writes Provisioning again, and Error never changes to Ready.
C7_Transitions ==
  \A t \in TenantIds :
    \A i \in 2..Len(writes[t]) :
      LET a == writes[t][i - 1]
          b == writes[t][i]
      IN \/ /\ b.op = "createTenant"
            /\ b.status \in {READY, ERROR}
            /\ \/ a.status = PROVISIONING
               \/ a = Write(DELETING, "deleteTenant", cuser[t])
         \/ /\ b = Write(DELETING, "deleteTenant", cuser[t])
            /\ a.status \in TenantStatus
         \/ /\ b = Write(REMOVED, "deleteTenant", cuser[t])
            /\ a.status \in {DELETING, READY, ERROR}
            /\ \E j \in 1..(i - 1) :
                 writes[t][j] = Write(DELETING, "deleteTenant", cuser[t])

C7_Witness ==
  \E t \in TenantIds :
    \E i \in 2..Len(writes[t]) :
      /\ writes[t][i - 1].status = ERROR
      /\ writes[t][i].status = DELETING
      /\ writes[t][Len(writes[t])].status = REMOVED

\* C8: a record is created with status Provisioning, and no later write
\* sets Provisioning.
C8_ProvisioningOnlyAtCreation ==
  \A t \in TenantIds :
    /\ HasRow(t) => Len(writes[t]) >= 1
    /\ \A i \in Idx(writes[t]) : (writes[t][i].status = PROVISIONING) <=> (i = 1)

C8_Witness ==
  \E t \in TenantIds :
    /\ Len(writes[t]) >= 3
    /\ HasRow(t)

\* C9: after Error has been persisted for a record, Ready is never persisted
\* for it.
C9_ErrorNeverReady ==
  \A t \in TenantIds :
    \A i \in Idx(writes[t]) :
      writes[t][i].status = ERROR =>
        \A j \in (i + 1)..Len(writes[t]) : writes[t][j].status # READY

C9_Witness ==
  \E t \in TenantIds :
    \E i \in Idx(writes[t]) :
      /\ writes[t][i].status = ERROR
      /\ i < Len(writes[t])
      /\ cpc[t] = "done"

\* C10: Error is persisted for a record, and a namespace deletion is issued by
\* its createTenant, only if a cluster create call of that createTenant failed.
C10_ErrorOnlyAfterFailure ==
  \A t \in TenantIds :
    (WroteStatus(t, ERROR) \/ CompensatingDeletes(t) # {}) => CreateFailed(t)

C10_Witness ==
  \E t \in TenantIds :
    /\ cpc[t] = "done"
    /\ Len(createCalls[t]) = Len(StatedOrder)
    /\ ~CreateFailed(t)
    /\ cresult[t] = Returned(READY, getAccessUrl(t))
    /\ ~WroteStatus(t, ERROR)

\* The deleteTenant call d was made by the owner of its tenant.
ByOwner(d) == dpc[d] # "idle" /\ duser[d] = cuser[dtenant[d]]

\* C11: in a deleteTenant of the owner, Deleting is persisted before the
\* namespace deletion is issued; the record is removed only after a namespace
\* deletion of the owner has returned, and it is removed whether that call
\* succeeded or failed; the call raises nothing because of a failed namespace
\* deletion (it raises only when another deleteTenant of the owner has
\* removed the record already).
C11_OwnerDelete ==
  \A d \in DeleteOps :
    ByOwner(d) =>
      LET t == dtenant[d]
          owner == duser[d]
      IN /\ \E i \in Idx(writes[t]) :
              writes[t][i] = Write(DELETING, "deleteTenant", owner)
         /\ WroteStatus(t, REMOVED) =>
              \E i \in Idx(nsDeleteCalls[t]) :
                /\ nsDeleteCalls[t][i].op = "deleteTenant"
                /\ nsDeleteCalls[t][i].user = owner
         /\ dpc[d] = "done" =>
              /\ ~HasRow(t)
              /\ dresult[d] = "threw" =>
                   \E x \in DeleteOps :
                     /\ x # d
                     /\ dtenant[x] = t
                     /\ ByOwner(x)
                     /\ dresult[x] = "returned"

C11_Witness ==
  \E d \in DeleteOps :
    /\ ByOwner(d)
    /\ dpc[d] = "done"
    /\ dcaught[d]
    /\ dresult[d] = "returned"
    /\ ~nsExists[dtenant[d]]
    /\ ~HasRow(dtenant[d])
    /\ \A i \in Idx(nsDeleteCalls[dtenant[d]]) : ~nsDeleteCalls[dtenant[d]][i].ok

\* The env of the create call that the cluster accepted for workload r of t.
InjectedEnv(t, r) ==
  LET i == CHOOSE i \in Idx(createCalls[t]) :
             /\ createCalls[t][i].kind = r.kind
             /\ createCalls[t][i].name = r.name
             /\ createCalls[t][i].ok
  IN createCalls[t][i].body.env

\* The namespace and the ten resources of t were created successfully.
AllCreated(t) ==
  /\ Len(createCalls[t]) = 11
  /\ createCalls[t][1].kind = "Namespace"
  /\ \A i \in Idx(createCalls[t]) : createCalls[t][i].ok
  /\ Cardinality({<<createCalls[t][i].kind, createCalls[t][i].name>> :
                    i \in Idx(createCalls[t])}) = 11

\* The password part of postgresql://<user>:<password>@<host>/<database>.
DatabaseUrlPassword(url) == url[4]

RowSecrets(row) == <<row.postgresPassword, row.minioAccessKey, row.minioSecretKey>>

\* C12: Ready is persisted for a record only after the namespace and all ten
\* resources were created, the three credentials are persisted exactly when
\* Ready is, and they are the values injected into the workloads:
\* POSTGRES_PASSWORD and the password of DATABASE_URL; MINIO_ROOT_USER and
\* STORAGE_ACCESS_KEY; MINIO_ROOT_PASSWORD and STORAGE_SECRET_KEY.
C12_ReadyCredentialsInjected ==
  \A t \in TenantIds :
    /\ WroteStatus(t, READY) => AllCreated(t)
    /\ HasRow(t) =>
         /\ WroteStatus(t, READY) <=> RowSecrets(store[t]) # RowSecrets(NewRow("u1", READY))
         /\ WroteStatus(t, READY) =>
              /\ NullSecret \notin {store[t].postgresPassword,
                                    store[t].minioAccessKey, store[t].minioSecretKey}
              /\ store[t].postgresPassword
                   = InjectedEnv(t, statefulSets[1]).POSTGRES_PASSWORD
              /\ store[t].postgresPassword
                   = DatabaseUrlPassword(InjectedEnv(t, deployments[1]).DATABASE_URL)
              /\ store[t].minioAccessKey
                   = InjectedEnv(t, statefulSets[2]).MINIO_ROOT_USER
              /\ store[t].minioAccessKey
                   = InjectedEnv(t, deployments[1]).STORAGE_ACCESS_KEY
              /\ store[t].minioSecretKey
                   = InjectedEnv(t, statefulSets[2]).MINIO_ROOT_PASSWORD
              /\ store[t].minioSecretKey
                   = InjectedEnv(t, deployments[1]).STORAGE_SECRET_KEY

C12_Witness ==
  \E t \in TenantIds :
    /\ cpc[t] = "done"
    /\ HasRow(t)
    /\ store[t].status = READY
    /\ store[t].minioSecretKey = creds[t].minioSecretKey
    /\ store[t].minioSecretKey # store[t].minioAccessKey

\* Every createTenant that has started drew each credential once.
C13_DrawnOnce ==
  /\ \A t \in TenantIds :
       cdraws[t] = IF cpc[t] = "idle" THEN << >> ELSE SecretKeys
  /\ nrandom = 3 * Cardinality({t \in TenantIds : cpc[t] # "idle"})

\* A step leaves the credentials of a record that has some and stays.
C13_Frame ==
  \A t \in TenantIds :
    ( /\ HasRow(t)
      /\ t \in DOMAIN store'
      /\ RowSecrets(store[t]) # RowSecrets(NewRow("u1", READY)) ) =>
      RowSecrets(store'[t]) = RowSecrets(store[t])

\* C13: each createTenant draws each of the three credentials exactly once,
\* and no step of any operation changes the credentials stored in a record
\* for as long as the record exists.
C13_CredentialsDrawnOnceNeverChanged == []C13_DrawnOnce /\ [][C13_Frame]_vars

C13_Witness ==
  \E t \in TenantIds :
    /\ HasRow(t)
    /\ store[t].status = DELETING
    /\ WroteStatus(t, READY)
    /\ RowSecrets(store[t]) = <<creds[t].postgresPassword,
                                creds[t].minioAccessKey, creds[t].minioSecretKey>>
    /\ cdraws[t] = SecretKeys

\* A step that is a listTenants call gives back the records of its caller,
\* each with its stored status, and changes neither table nor cluster.
C14_ListStep ==
  nlists' # nlists =>
    /\ DOMAIN listed'.tenants =
         {t \in TenantIds : HasRow(t) /\ store[t].owner = listed'.user}
    /\ \A t \in DOMAIN listed'.tenants :
         /\ listed'.tenants[t].status = store[t].status
         /\ listed'.tenants[t].accessUrl # NullUrl <=> store[t].status = READY
    /\ store' = store
    /\ writes' = writes
    /\ nsExists' = nsExists
    /\ resources' = resources
    /\ createCalls' = createCalls
    /\ nsDeleteCalls' = nsDeleteCalls

\* C14: listTenants(userId) returns exactly the records owned by userId, the
\* access URL of a returned tenant is non-null if and only if its stored
\* status is Ready, and the call changes no record and makes no cluster call.
C14_ListOwnedOnly == [][C14_ListStep]_vars

C14_Witness ==
  /\ nlists = 1
  /\ \E t \in DOMAIN listed.tenants :
       /\ listed.tenants[t].status = READY
       /\ listed.tenants[t].accessUrl = getAccessUrl(t)
       /\ store[t].owner = listed.user

\* The host part of <scheme>://<host>.
UrlHost(url) == SubSeq(url, 3, Len(url))

\* The body of the create call that the cluster accepted for resource r of t.
AcceptedBody(t, r) ==
  LET i == CHOOSE i \in Idx(createCalls[t]) :
             /\ createCalls[t][i].kind = r.kind
             /\ createCalls[t][i].name = r.name
             /\ createCalls[t][i].ok
  IN createCalls[t][i].body

\* url is <scheme>://<t>.<domain> with the scheme the TLS flag selects.
IsAccessUrlOf(url, t) ==
  /\ Len(url) = 5
  /\ url[1] = "https" <=> useTLS
  /\ url[1] = "http" <=> ~useTLS
  /\ url[2] = "://"
  /\ UrlHost(url) = <<t, ".", clusterDomain>>

\* C15: the access URL is <scheme>://<tenantId>.<domain>, https when the TLS
\* flag is true and http otherwise; the URL createTenant or listTenants
\* returns for a Ready tenant, the FRONTEND_URL of the tenant's backend and
\* the host of its primary ingress denote the same host <tenantId>.<domain>.
C15_AccessUrl ==
  /\ \A t \in TenantIds :
       (cresult[t].kind = "returned" /\ cresult[t].status = READY) =>
         /\ IsAccessUrlOf(cresult[t].accessUrl, t)
         /\ IsAccessUrlOf(AcceptedBody(t, deployments[1]).env.FRONTEND_URL, t)
         /\ Len(AcceptedBody(t, ingresses[1]).rules) = 1
         /\ AcceptedBody(t, ingresses[1]).rules[1].host
              = UrlHost(cresult[t].accessUrl)
  /\ \A t \in DOMAIN listed.tenants :
       listed.tenants[t].status = READY =>
         /\ IsAccessUrlOf(listed.tenants[t].accessUrl, t)
         /\ UrlHost(listed.tenants[t].accessUrl)
              = UrlHost(AcceptedBody(t, deployments[1]).env.FRONTEND_URL)
         /\ UrlHost(listed.tenants[t].accessUrl)
              = AcceptedBody(t, ingresses[1]).rules[1].host

C15_Witness ==
  /\ ~useTLS
  /\ \E t \in DOMAIN listed.tenants :
       /\ listed.tenants[t].status = READY
       /\ listed.tenants[t].accessUrl[1] = "http"
       /\ cresult[t].kind = "returned"
       /\ cresult[t].accessUrl = listed.tenants[t].accessUrl

\* ------------------------------------------- claims on getComponentStatus
\* The call is done and its answer came from a Deployment with a status.
FromDeployment == spc = "done" /\ depRead.kind = "found"

\* A count of the Deployment status read, absent read as 0.
N(field) == IF field = Absent THEN 0 ELSE field[1]

HasFailed(status) == \E c \in status.conditions : c.type = "Failed"

\* Rule 1 as stated: available = updated = ready = desired, unavailable = 0.
Rule1(status) ==
  /\ N(status.availableReplicas) = N(status.replicas)
  /\ N(status.updatedReplicas) = N(status.replicas)
  /\ N(status.readyReplicas) = N(status.replicas)
  /\ N(status.unavailableReplicas) = 0

\* Rule 2 as stated: collision count > 0 or a condition of type Failed.
Rule2(status) == N(status.collisionCount) > 0 \/ HasFailed(status)

ProgressingTrue(status) ==
  \E c \in status.conditions :
    /\ c.type = "Progressing"
    /\ c.status = "True"
    /\ c.reason = "NewReplicaSetAvailable" \/ c.reason = "ReplicaSetUpdated"

PartlyUpdated(status) ==
  0 < N(status.updatedReplicas) /\ N(status.updatedReplicas) < N(status.replicas)

\* C16 as stated: a Deployment with a condition of type Failed is answered
\* Error for every combination of replica counts.
C16_FailedAlwaysErrorAsStated ==
  (FromDeployment /\ HasFailed(depRead.status)) => answer.status = ERROR

\* C16 amended: a Deployment with a condition of type Failed is answered
\* Error for every combination of replica counts but the one rule 1 matches
\* (available = updated = ready = desired, unavailable = 0), which is
\* answered Running.
C16_FailedErrorUnlessRunning ==
  (FromDeployment /\ HasFailed(depRead.status)) =>
    answer.status = IF Rule1(depRead.status) THEN RUNNING ELSE ERROR

C16_Witness ==
  /\ FromDeployment
  /\ HasFailed(depRead.status)
  /\ depRead.status.replicas = <<2>>
  /\ depRead.status.readyReplicas = <<1>>
  /\ depRead.status.collisionCount = <<0>>
  /\ answer.status = ERROR

\* C17: a Deployment that has a status is answered Running if and only if
\* available = updated = ready = desired replicas and unavailable = 0,
\* absent counts read as 0.
C17_RunningIffAllMatch ==
  FromDeployment => (answer.status = RUNNING <=> Rule1(depRead.status))

C17_Witness ==
  /\ FromDeployment
  /\ answer.status = RUNNING
  /\ depRead.status.replicas = <<2>>
  /\ depRead.status.unavailableReplicas = Absent

\* C18 as stated: a Deployment that is neither Running nor Error is answered
\* Pending whenever ready < desired or available < desired (either alone),
\* or some but not all replicas are updated, or Progressing is True with one
\* of the two reasons; Unhealthy only when none of these holds.
C18_PendingEitherBelowAsStated ==
  (FromDeployment /\ ~Rule1(depRead.status) /\ ~Rule2(depRead.status)) =>
    LET st == depRead.status
        pending == \/ N(st.readyReplicas) < N(st.replicas)
                   \/ N(st.availableReplicas) < N(st.replicas)
                   \/ PartlyUpdated(st)
                   \/ ProgressingTrue(st)
    IN /\ pending => answer.status = PENDING
       /\ answer.status = UNHEALTHY => ~pending

\* C18 amended: such a Deployment is answered Pending exactly when ready and
\* available replicas are both below desired, or some but not all replicas
\* are updated, or Progressing is True with one of the two reasons; it is
\* answered Unhealthy only when none of these holds, which includes the
\* Deployments where ready replicas alone are below desired.
C18_PendingBothBelow ==
  (FromDeployment /\ ~Rule1(depRead.status) /\ ~Rule2(depRead.status)) =>
    LET st == depRead.status
        pending == \/ /\ N(st.readyReplicas) < N(st.replicas)
                      /\ N(st.availableReplicas) < N(st.replicas)
                   \/ PartlyUpdated(st)
                   \/ ProgressingTrue(st)
    IN /\ answer.status = PENDING <=> pending
       /\ answer.status = UNHEALTHY => ~pending

C18_Witness ==
  /\ FromDeployment
  /\ ~Rule2(depRead.status)
  /\ depRead.status.replicas = <<2>>
  /\ depRead.status.readyReplicas = <<1>>
  /\ depRead.status.availableReplicas = <<2>>
  /\ depRead.status.updatedReplicas = <<2>>
  /\ ~ProgressingTrue(depRead.status)
  /\ answer.status = UNHEALTHY

\* C19: a Deployment with no Failed condition and collision count 0 whose
\* replicas are catching up (0 < updated < desired, ready < desired,
\* available < desired) is answered Pending, also when unavailable > 0.
C19_CatchingUpIsPending ==
  ( /\ FromDeployment
    /\ ~HasFailed(depRead.status)
    /\ N(depRead.status.collisionCount) = 0
    /\ PartlyUpdated(depRead.status)
    /\ N(depRead.status.readyReplicas) < N(depRead.status.replicas)
    /\ N(depRead.status.availableReplicas) < N(depRead.status.replicas) ) =>
    answer.status = PENDING

C19_Witness ==
  /\ FromDeployment
  /\ ~HasFailed(depRead.status)
  /\ depRead.status.replicas = <<2>>
  /\ depRead.status.updatedReplicas = <<1>>
  /\ depRead.status.readyReplicas = <<1>>
  /\ depRead.status.availableReplicas = <<1>>
  /\ depRead.status.unavailableReplicas = <<1>>
  /\ answer.status = PENDING

\* C20: when the reads of the cluster fail with a fault other than "not
\* found", the answer is Error with the message of the fault, not with the
\* message "Component not found".
C20_FaultMessageAsStated ==
  ( /\ spc = "done"
    /\ depRead.kind = "threw"
    /\ ssRead.kind = "threw"
    /\ ssRead.fault = "connect ECONNREFUSED" ) =>
    /\ answer.status = ERROR
    /\ answer.message = <<ssRead.fault>>

NotFound == "HTTP-Code: 404 Not Found"

\* C21: when the component is found neither as a Deployment nor as a
\* StatefulSet the answer is Error with message "Component not found"; the
\* StatefulSet is read only after the Deployment read has failed, and when a
\* Deployment is found no StatefulSet is read.
C21_NotFoundUnderBothKinds ==
  /\ ( /\ spc = "done"
       /\ depRead = ReadThrew(NotFound)
       /\ ssRead = ReadThrew(NotFound) ) =>
       answer = Answer(component, ERROR, <<"Component not found">>)
  /\ (ssRead.kind # "none" \/ spc = "readStatefulSet") => depRead.kind = "threw"
  /\ depRead.kind \in {"found", "nostatus"} => (ssRead.kind = "none" /\ spc = "done")

C21_Witness ==
  /\ spc = "done"
  /\ depRead = ReadThrew(NotFound)
  /\ ssRead = ReadThrew(NotFound)
  /\ answer.message = <<"Component not found">>

\* C22: getComponentStatus raises nothing: whatever the two reads give
\* (a status, an object without status, not found, a fault), the call ends
\* with one value of the six of ComponentStatus and the queried name.
C22_AlwaysClassified ==
  /\ spc \in {"idle", "readDeployment", "readStatefulSet", "done"}
  /\ spc = "done" =>
       /\ answer.status \in {"running", "pending", "error", "unhealthy",
                              "unavailable", "unknown"}
       /\ answer.name = component
       /\ depRead.kind \in {"found", "nostatus", "threw"}
       /\ depRead.kind = "threw" => ssRead.kind \in {"found", "nostatus", "threw"}
  /\ spc = "readStatefulSet" => depRead.kind = "threw"

C22_Witness ==
  /\ spc = "done"
  /\ depRead.kind = "found"
  /\ answer.status = UNKNOWN
  /\ answer.name = "postgres"

\* The deleteTenant call d is between its first and its last await.
DeleteInFlight(d) == dpc[d] \in {"deleteTenant", "delete"}

CreateInFlight(t) == cpc[t] \notin {"idle", "done"}

\* C23: at most one create-or-delete operation is in flight per tenant id:
\* while the createTenant of an id has not finished no deleteTenant has
\* written to its record or called the cluster for it, and no two
\* deleteTenant calls on one id are in flight together.
C23_SerializedAsStated ==
  \A t \in TenantIds :
    /\ CreateInFlight(t) =>
         /\ \A i \in Idx(writes[t]) : writes[t][i].op # "deleteTenant"
         /\ \A i \in Idx(nsDeleteCalls[t]) : nsDeleteCalls[t][i].op # "deleteTenant"
    /\ \A d1, d2 \in DeleteOps :
         (d1 # d2 /\ dtenant[d1] = t /\ dtenant[d2] = t) =>
           ~(DeleteInFlight(d1) /\ DeleteInFlight(d2))

\* The record of tenant x and the state and call logs of namespace tenant-x.
RecordOf(x) == IF HasRow(x) THEN <<store[x]>> ELSE << >>

TenantState(x) ==
  <<RecordOf(x), writes[x], nsExists[x], resources[x], createCalls[x],
    nsDeleteCalls[x]>>

\* Every call the cluster received for namespace tenant-x was made by an
\* operation on tenant x.
C24_CallsTargetOwnNamespace ==
  \A x \in TenantIds :
    /\ \A i \in Idx(createCalls[x]) :
         /\ createCalls[x][i].tenant = x
         /\ createCalls[x][i].namespace = <<"tenant-", x>>
    /\ \A i \in Idx(nsDeleteCalls[x]) :
         /\ nsDeleteCalls[x][i].tenant = x
         /\ nsDeleteCalls[x][i].name = <<"tenant-", x>>

\* A step changes the record, the namespace or the logs of tenant x only if
\* it is a step of the createTenant of x or of a deleteTenant on x, and it
\* changes those of no second tenant.
C24_StepOfOneTenant ==
  /\ \A x \in TenantIds :
       TenantState(x)' # TenantState(x) =>
         \/ <<cpc[x], cidx[x]>>' # <<cpc[x], cidx[x]>>
         \/ \E d \in DeleteOps : dpc'[d] # dpc[d] /\ dtenant'[d] = x
  /\ \A x, y \in TenantIds :
       (TenantState(x)' # TenantState(x) /\ TenantState(y)' # TenantState(y))
         => x = y

NoDeleteOn(t) == \A d \in DeleteOps : dpc[d] = "idle" \/ dtenant[d] # t

CreateFinished(t) ==
  /\ cpc[t] = "done"
  /\ HasRow(t)
  /\ store[t].status \in {READY, ERROR}

\* C25: every createTenant eventually finishes with the record in Ready or
\* Error, also when a cluster call never answers (stated for the ids on
\* which no deleteTenant is ever made).
C25_EventuallyReadyOrError ==
  \A t \in TenantIds :
    []NoDeleteOn(t) => ((cpc[t] = "createNamespace") ~> CreateFinished(t))

TenantNamespace(tenantId) == <<"tenant-", tenantId>>

\* C26: the namespace name of a tenant id is tenant-<id> everywhere: in the
\* name of the namespace manifest and the namespace field of every
\* StatefulSet, Deployment, Service and Ingress manifest sent, in the target
\* of every create call, in the name of every deletion call, and in the
\* name getComponentStatus derives for its reads.
C26_NamespaceNameEverywhere ==
  /\ \A x \in TenantIds :
       /\ \A i \in Idx(createCalls[x]) :
            /\ createCalls[x][i].namespace =
                 TenantNamespace(createCalls[x][i].tenant)
            /\ createCalls[x][i].body.namespace =
                 TenantNamespace(createCalls[x][i].tenant)
       /\ \A i \in Idx(nsDeleteCalls[x]) :
            nsDeleteCalls[x][i].name =
              TenantNamespace(nsDeleteCalls[x][i].tenant)
       /\ getNamespaceName(x) = TenantNamespace(x)
  /\ \A i \in Idx(sreadNs) : sreadNs[i] = TenantNamespace(stenant)

C26_Witness ==
  /\ Len(createCalls[2]) = NumResources + 1
  /\ \A i \in Idx(createCalls[2]) : createCalls[2][i].tenant = 2
  /\ \E i \in Idx(nsDeleteCalls[2]) : nsDeleteCalls[2][i].tenant = 2

FromStatefulSet == spc = "done" /\ ssRead.kind = "found"

SetRunning(status) ==
  /\ N(status.availableReplicas) = N(status.replicas)
  /\ N(status.readyReplicas) = N(status.replicas)
  /\ N(status.currentReplicas) = N(status.replicas)

SetBelow(status) ==
  \/ N(status.availableReplicas) < N(status.replicas)
  \/ N(status.readyReplicas) < N(status.replicas)
  \/ N(status.currentReplicas) < N(status.replicas)

SetAbove(status) ==
  \/ N(status.availableReplicas) > N(status.replicas)
  \/ N(status.readyReplicas) > N(status.replicas)
  \/ N(status.currentReplicas) > N(status.replicas)

SetProgressingFalse(status) ==
  \E c \in status.conditions : c.type = "Progressing" /\ c.status = "False"

\* C27: for a component found as a StatefulSet with a status, the answer is
\* the first match of Running (available = ready = current = desired),
\* Error (a Failed condition), Pending (a count below desired), Unhealthy
\* (a Progressing condition with status False), otherwise Unknown; so
\* Unhealthy or Unknown is answered only when no count is below desired and
\* at least one exceeds it.
C27_StatefulSetPrecedence ==
  FromStatefulSet =>
    LET status == ssRead.status
    IN /\ SetRunning(status) => answer.status = RUNNING
       /\ (~SetRunning(status) /\ HasFailed(status)) => answer.status = ERROR
       /\ (~SetRunning(status) /\ ~HasFailed(status) /\ SetBelow(status))
            => answer.status = PENDING
       /\ ( /\ ~SetRunning(status) /\ ~HasFailed(status) /\ ~SetBelow(status)
            /\ SetProgressingFalse(status) ) => answer.status = UNHEALTHY
       /\ ( /\ ~SetRunning(status) /\ ~HasFailed(status) /\ ~SetBelow(status)
            /\ ~SetProgressingFalse(status) ) => answer.status = UNKNOWN
       /\ answer.status \in {UNHEALTHY, UNKNOWN}
            => (~SetBelow(status) /\ SetAbove(status))

C27_Witness ==
  /\ FromStatefulSet
  /\ answer.status = UNHEALTHY
  /\ N(ssRead.status.availableReplicas) > N(ssRead.status.replicas)
  /\ N(ssRead.status.readyReplicas) = N(ssRead.status.replicas)
  /\ N(ssRead.status.replicas) > 0

\* The manifests the cluster accepted for tenant t, by kind.
Created(t, kinds) ==
  {createCalls[t][i] : i \in {j \in Idx(createCalls[t]) :
                               /\ createCalls[t][j].ok
                               /\ createCalls[t][j].kind \in kinds}}

WorkloadNames == {"postgres", "minio", "backend", "frontend"}

StatedPort(name) ==
  CASE name = "postgres" -> 5432
    [] name = "minio" -> 9000
    [] name = "backend" -> 3001
    [] name = "frontend" -> 3000

\* The ingress named n has the one rule host -> serviceName:port.
RoutesTo(t, n, host, serviceName, port) ==
  \E e \in Created(t, {"Ingress"}) :
    /\ e.name = n
    /\ Len(e.body.rules) = 1
    /\ e.body.rules[1].host = host
    /\ Len(e.body.rules[1].paths) = 1
    /\ e.body.rules[1].paths[1].serviceName = serviceName
    /\ e.body.rules[1].paths[1].port = port

\* C28: the manifests created for one tenant are referentially consistent:
\* one Service per workload with the workload's name, its selector equal to
\* the workload's pod label and its port the stated container port of the
\* workload; the primary host routes to frontend:3000 and the cdn host to
\* minio:9000, and every route names a created Service and one of its
\* ports.
C28_ManifestsConsistent ==
  \A t \in TenantIds :
    AllCreated(t) =>
      LET workloads == Created(t, {"StatefulSet", "Deployment"})
          svcs == Created(t, {"Service"})
          ings == Created(t, {"Ingress"})
      IN /\ {w.name : w \in workloads} = WorkloadNames
         /\ {s.name : s \in svcs} = WorkloadNames
         /\ Cardinality(svcs) = Cardinality(workloads)
         /\ \A w \in workloads :
              /\ Cardinality({s \in svcs : s.name = w.name}) = 1
              /\ \A s \in svcs :
                   s.name = w.name =>
                     /\ s.body.selector = w.body.podLabel
                     /\ s.body.servicePorts = {StatedPort(w.name)}
                     /\ s.body.servicePorts \subseteq w.body.containerPorts
         /\ RoutesTo(t, "ingress", <<t, ".", clusterDomain>>, "frontend", 3000)
         /\ RoutesTo(t, "cdnIngress", <<"cdn", ".", t, ".", clusterDomain>>,
                     "minio", 9000)
         /\ \A e \in ings :
              \A i \in Idx(e.body.rules) :
                \A j \in Idx(e.body.rules[i].paths) :
                  \E s \in svcs :
                    /\ s.name = e.body.rules[i].paths[j].serviceName
                    /\ e.body.rules[i].paths[j].port \in s.body.servicePorts

C28_Witness ==
  /\ AllCreated(2)
  /\ Cardinality(Created(2, {"Service"})) = 4
  /\ Cardinality(Created(2, {"Ingress"})) = 2
  /\ cresult[2].status = READY

\* No createTenant or deleteTenant on id t is between its first and last
\* step.
Quiescent(t) ==
  /\ ~CreateInFlight(t)
  /\ \A d \in DeleteOps : dtenant[d] = t => ~DeleteInFlight(d)

\* Every deleteNamespace call made so far for tenant-t succeeded.
DeletionsSucceeded(t) ==
  \A i \in Idx(nsDeleteCalls[t]) : nsDeleteCalls[t][i].ok

ReturnedSecrets(t) == mapSecrets(crow[t])

CreateSucceeded(t) ==
  /\ cpc[t] = "done"
  /\ cresult[t].kind = "returned"
  /\ cresult[t].status = READY

\* C30: the secrets a successful createTenant returns are the credentials
\* the same call persisted in the record, and are what a following
\* listTenants by the owner returns for the tenant.
C30_ReturnedSecretsArePersisted ==
  \A t \in TenantIds :
    CreateSucceeded(t) =>
      /\ ReturnedSecrets(t) = mapSecrets(creds[t])
      /\ ( /\ listed.user = cuser[t]
           /\ t \in DOMAIN listed.tenants
           /\ listed.tenants[t].status = READY )
           => listed.tenants[t].secrets = ReturnedSecrets(t)

====
